---- MODULE Spec2Model ----
(***************************************************************************)
(* Model of the Ollama text compressor (src/main.go): the main goroutine   *)
(* (flag checks, file access, chunk dispatch, result collection, assembly  *)
(* and output), the per-chunk worker goroutines with their retry loop, the *)
(* goroutine that closes the results channel, and processChunk.            *)
(***************************************************************************)
EXTENDS Integers, Sequences, FiniteSets, TLC

VARIABLES
    inputFile,        \* flag -input
    apiEndpoint,      \* flag -api
    outputFile,       \* flag -output
    file,             \* what the chunking loop reads: the chunk texts, in order
    pc,               \* position of the main goroutine
    exitCode,         \* exit code of the process, -1 while it runs
    fatalAt,          \* the step whose error ended the process, or "none"
    chunks,           \* chunks []string
    i,                \* index of the dispatch loop (0-based)
    wg,               \* sync.WaitGroup counter
    semaphore,        \* number of tokens in the semaphore channel
    results,          \* buffer of the results channel
    closed,           \* the results channel has been closed
    panicked,         \* a goroutine sent on the closed results channel
    closer,           \* position of the goroutine of lines 200-203
    wpc,              \* position of each worker goroutine
    attempt,          \* loop variable of each worker
    result,           \* result of each worker
    processErr,       \* processErr of each worker
    processedChunks,  \* processedChunks []string
    errorCount,       \* errorCount
    combinedContent,  \* combinedContent
    written,          \* content of the output file, or NotWritten
    summary,          \* the compression ratio line printed, if any
    processBar,       \* count of the progress bar "Processing with Ollama"
    calls,            \* instrumentation: processChunk calls per chunk
    sleeps,           \* instrumentation: retry delays taken per chunk
    slotWrites,       \* instrumentation: writes to each output slot
    closes,           \* instrumentation: number of close(results)
    outOfOrder,       \* instrumentation: a result arrived after one of a later chunk
    requestIssued,    \* instrumentation: processChunk has been called
    rd,               \* the chunking loop on its own: reader, buffer and chunks read
    px                \* processChunk on its own: the reply parsed and what is returned

vars == <<inputFile, apiEndpoint, outputFile, file, pc, exitCode, fatalAt, chunks, i, wg,
          semaphore, results, closed, panicked, closer, wpc, attempt, result,
          processErr, processedChunks, errorCount, combinedContent, written,
          summary, processBar, calls, sleeps, slotWrites, closes, outOfOrder,
          requestIssued, rd, px>>

----------------------------------------------------------------------------
(* Program constants *)

maxConcurrentRequests == 3

maxRetries == 3

StatusOK == 200

(* Bounds of the model *)

MaxChunks == 4

nil == "nil"

NotWritten == "<no file>"

Sep == "\n\n"

----------------------------------------------------------------------------
(* JSON texts, as the values they decode to; JBad is a text that is not JSON *)

JBad == [t |-> "bad"]

JNull == [t |-> "null"]

JStr(s) == [t |-> "str", s |-> s]

JBool(b) == [t |-> "bool", b |-> b]

JNum(n) == [t |-> "num", n |-> n]

JObj(f) == [t |-> "obj", f |-> f]

HasKey(j, k) == j.t = "obj" /\ k \in DOMAIN j.f

----------------------------------------------------------------------------
(* processChunk: request building, the call, the status check and the two  *)
(* response parsers.  A reply of the service is                            *)
(*   [net |-> the POST returned a response, status |-> its status code,    *)
(*    body |-> the lines of its body (JSON texts), readErr |-> a read of   *)
(*    the body returns an error other than io.EOF, errAt |-> the first     *)
(*    line that reaches the parser after that read: a line that came with  *)
(*    the error or was cut short by it is still delivered; errAt is        *)
(*    Len(body) + 1 when the read fails after the last line, or never,     *)
(*    endsWithData |-> the last line of the body has no line end and the    *)
(*    Read that returns its last bytes returns io.EOF, or the read error,   *)
(*    together with them]                                                   *)
(* A line of a body is a JSON text, or Padded(j, n): the JSON text j        *)
(* followed by blanks, n bytes in all.                                     *)

InstructionPrefix == "Compress this text fragment without losing important information: "

\* lines 258-289: the endpoint-specific payload; json.Marshal of structs of
\* strings returns no error
BuildRequest(modelName, content, api) ==
    IF api = "generate"
    THEN [err |-> nil,
          body |-> JObj([k \in {"model", "prompt"} |->
                      IF k = "model" THEN JStr(modelName)
                      ELSE JStr(InstructionPrefix \o content)])]
    ELSE [err |-> nil,
          body |-> JObj([k \in {"model", "messages"} |->
                      IF k = "model" THEN JStr(modelName)
                      ELSE [t |-> "arr",
                            a |-> <<JObj([m \in {"role", "content"} |->
                                     IF m = "role" THEN JStr("user")
                                     ELSE JStr(InstructionPrefix \o content)])>>]])]

\* a JSON value that json.Unmarshal stores in (or skips for) a string field
FitsString(j) == j.t \in {"str", "null"}

FitsBool(j) == j.t \in {"bool", "null"}

\* the keys of the replies explored that are not in lower case
Spelled ==
    [Response |-> "response", Done |-> "done", Message |-> "message",
     Content |-> "content"]

\* encoding/json matches the keys of an object with the fields of a struct
\* without regard to case
Fold(k) == IF k \in DOMAIN Spelled THEN Spelled[k] ELSE k

\* the keys of object j that json.Unmarshal stores in the struct field tagged k;
\* the objects explored spell a key in one way only
FieldKeys(j, k) == {x \in DOMAIN j.f : Fold(x) = k}

HasField(j, k) == j.t = "obj" /\ FieldKeys(j, k) # {}

Field(j, k) == j.f[CHOOSE x \in FieldKeys(j, k) : TRUE]

\* a field of a decoded struct: absent from the object, or a fitting value
StringField(j, k) == \A x \in FieldKeys(j, k) : FitsString(j.f[x])

BoolField(j, k) == \A x \in FieldKeys(j, k) : FitsBool(j.f[x])

\* mutant: the done flag of a line is not looked at
DecodeIgnoringDone(line) ==
    [err |-> line.t \notin {"obj", "null"},
     response |-> IF HasKey(line, "response") /\ line.f["response"].t = "str"
                  THEN line.f["response"].s ELSE "",
     done |-> FALSE]

\* json.Unmarshal(line, &generateResp) into a fresh OllamaGenerateResponse
DecodeGenerate(line) ==
    IF line.t = "null" THEN [err |-> FALSE, response |-> "", done |-> FALSE]
    ELSE IF line.t # "obj" THEN [err |-> TRUE, response |-> "", done |-> FALSE]
    ELSE [err |-> ~(StringField(line, "response")
                    /\ BoolField(line, "done")),
          response |-> IF HasField(line, "response") /\ Field(line, "response").t = "str"
                       THEN Field(line, "response").s ELSE "",
          done |-> IF HasField(line, "done") /\ Field(line, "done").t = "bool"
                   THEN Field(line, "done").b ELSE FALSE]

\* bufio.MaxScanTokenSize, the buffer limit of the Scanner of line 312
maxScanTokenSize == 65536

Padded(j, n) == [t |-> "padded", j |-> j, len |-> n]

\* the JSON text of a line; json.Unmarshal skips the blanks after it
LineText(line) == IF line.t = "padded" THEN line.j ELSE line

\* scanner.Scan() finds no end of line within its full buffer and stops with
\* bufio.ErrTooLong.  A line of exactly maxScanTokenSize bytes is delivered
\* all the same when it is the last of the body, has no line end, and the
\* Read that fills the buffer returns io.EOF or an error with the data: Scan
\* then hands the buffer to the split function as the final token before it
\* looks at the buffer's size.  The other lines explored are far shorter
TooLong(lines, k, endsWithData) ==
    /\ lines[k].t = "padded"
    /\ \/ lines[k].len > maxScanTokenSize
       \/ /\ lines[k].len = maxScanTokenSize
          /\ ~(k = Len(lines) /\ endsWithData)

\* lines 323-327: scanner.Err() is checked when the loop is left, through
\* its break too; met says the scanner has met the read error by then
AfterScan(met, acc) ==
    IF met
    THEN [text |-> "", err |-> "error reading streaming response"]
    ELSE [text |-> acc, err |-> nil]

\* lines 311-327: the scanner loop from line k on, with acc already written
RECURSIVE ScanGenerate(_, _, _, _, _, _)
ScanGenerate(lines, readErr, errAt, endsWithData, k, acc) ==
    IF k > Len(lines)
    THEN AfterScan(readErr, acc)
    ELSE IF TooLong(lines, k, endsWithData)
    THEN AfterScan(TRUE, acc)
    ELSE LET d == DecodeGenerate(LineText(lines[k]))
         IN  IF d.err
             THEN [text |-> "", err |-> "error parsing streaming response line"]
             ELSE IF d.done
                  THEN AfterScan(readErr /\ k >= errAt, acc \o d.response)
                  ELSE ScanGenerate(lines, readErr, errAt, endsWithData, k + 1,
                                    acc \o d.response)

\* the message struct of OllamaCompletionResponse accepts the value
FitsMessage(j) ==
    \/ j.t = "null"
    \/ /\ j.t = "obj"
       /\ StringField(j, "role")
       /\ StringField(j, "content")

\* json.Unmarshal(body, &chatResp) returns no error
StrictChatOK(doc) ==
    \/ doc.t = "null"
    \/ /\ doc.t = "obj"
       /\ StringField(doc, "model")
       /\ StringField(doc, "created_at")
       /\ \A x \in FieldKeys(doc, "message") : FitsMessage(doc.f[x])
       /\ BoolField(doc, "done")

\* mutant: the struct fields are matched with the keys as they are spelled
StrictContentExact(doc) ==
    IF /\ HasKey(doc, "message")
       /\ HasKey(doc.f["message"], "content")
       /\ doc.f["message"].f["content"].t = "str"
    THEN doc.f["message"].f["content"].s
    ELSE ""

\* chatResp.Message.Content after json.Unmarshal(body, &chatResp)
StrictContent(doc) ==
    IF /\ HasField(doc, "message")
       /\ HasField(Field(doc, "message"), "content")
       /\ Field(Field(doc, "message"), "content").t = "str"
    THEN Field(Field(doc, "message"), "content").s
    ELSE ""

\* result["message"].(map)["content"].(string): [ok, s]
MessageContent(doc) ==
    IF /\ HasKey(doc, "message")
       /\ HasKey(doc.f["message"], "content")
       /\ doc.f["message"].f["content"].t = "str"
    THEN [ok |-> TRUE, s |-> doc.f["message"].f["content"].s]
    ELSE [ok |-> FALSE, s |-> ""]

\* lines 329-351: body is the whole response body, as its lines
ParseChat(lines, readErr) ==
    IF readErr THEN [text |-> "", err |-> "error reading response"]
    ELSE LET doc == IF Len(lines) = 1 THEN lines[1] ELSE JBad
             mc  == MessageContent(doc)
         IN  IF StrictChatOK(doc) /\ StrictContent(doc) # ""
             THEN [text |-> StrictContent(doc), err |-> nil]
             ELSE IF doc.t \notin {"obj", "null"}
                  THEN [text |-> "", err |-> "error parsing chat response"]
                  ELSE IF mc.ok
                       THEN [text |-> mc.s, err |-> nil]
                       ELSE [text |-> "",
                             err |-> "could not extract content from chat API response"]

\* processChunk (lines 253-352): [text, err]
processChunk(modelName, content, api, reply) ==
    LET req == BuildRequest(modelName, content, api)
    IN  IF req.err # nil THEN [text |-> "", err |-> "error creating request"]
        ELSE IF ~reply.net THEN [text |-> "", err |-> "error calling Ollama API"]
        ELSE IF reply.status # StatusOK
             THEN [text |-> "", err |-> "API returned error status"]
        ELSE IF api = "generate"
             THEN ScanGenerate(reply.body, reply.readErr, reply.errAt,
                               reply.endsWithData, 1, "")
             ELSE ParseChat(reply.body, reply.readErr)

GenLine(s, d) ==
    JObj([k \in {"response", "done"} |-> IF k = "response" THEN JStr(s) ELSE JBool(d)])

ChatDoc(s) ==
    JObj([k \in {"message", "done"} |->
            IF k = "done" THEN JBool(TRUE)
            ELSE JObj([m \in {"role", "content"} |->
                         IF m = "role" THEN JStr("assistant") ELSE JStr(s)])])

Answer(idx) == "r" \o ToString(idx)

\* a reply whose body is read without error, io.EOF coming after its last
\* bytes
CleanReply(net, status, body) ==
    [net |-> net, status |-> status, body |-> body, readErr |-> FALSE,
     errAt |-> Len(body) + 1, endsWithData |-> FALSE]

\* the replies the service gives in the runs explored: to each attempt either
\* the well-formed answer for chunk idx or a failure, which is a refused
\* connection on the first attempt, an error status on the second and a
\* malformed body on any later one
FailureReply(a) ==
    IF a = 0 THEN CleanReply(FALSE, 0, <<>>)
    ELSE IF a = 1 THEN CleanReply(TRUE, 500, <<>>)
    ELSE CleanReply(TRUE, StatusOK, <<JBad>>)

AnswerReply(api, idx) ==
    CleanReply(TRUE, StatusOK,
           IF api = "generate"
           THEN <<GenLine("r", FALSE), GenLine(ToString(idx), TRUE)>>
           ELSE <<ChatDoc(Answer(idx))>>)

Replies(api, idx, a) == {FailureReply(a), AnswerReply(api, idx)}

----------------------------------------------------------------------------
(* The run *)

ModelName == "llama3.2-vision:latest"

ChunkText(idx) == "c" \o ToString(idx)

N == Len(chunks)

Workers == 0 .. MaxChunks - 1

\* the process has not exited
Running == pc \notin {"done", "exit"}

\* lines 205-217 keep results by index; slot idx is processedChunks[idx + 1]
Slot(idx) == idx + 1

\* strings.Join(elems, sep)
RECURSIVE Join(_, _)
Join(elems, sep) ==
    IF Len(elems) = 0 THEN ""
    ELSE IF Len(elems) = 1 THEN elems[1]
    ELSE elems[1] \o sep \o Join(Tail(elems), sep)

\* filepath.Dir of the output path, for the paths of OutputFiles
Dir(path) == IF path = "out/llm.txt" THEN "out" ELSE "."

\* lines 59-64: the command lines explored (flags -input, -api, -output)
CommandLines ==
    { [input |-> "", api |-> "generate", output |-> "llm.txt"],
      [input |-> "in.txt", api |-> "embed", output |-> "llm.txt"],
      [input |-> "in.txt", api |-> "generate", output |-> "llm.txt"],
      [input |-> "in.txt", api |-> "chat", output |-> "out/llm.txt"] }

\* no compression ratio line has been printed
NoRatio == [printed |-> FALSE, ratio |-> "none", from |-> 0, to |-> 0]

\* the process starts with command line cl on a file read as n chunks
MainInit(cl, n) ==
    /\ inputFile = cl.input
    /\ apiEndpoint = cl.api
    /\ outputFile = cl.output
    /\ file = [k \in 1 .. n |-> ChunkText(k - 1)]
    /\ pc = "flags"
    /\ exitCode = -1
    /\ fatalAt = "none"
    /\ chunks = <<>>
    /\ i = 0
    /\ wg = 0
    /\ semaphore = 0
    /\ results = <<>>
    /\ closed = FALSE
    /\ panicked = FALSE
    /\ closer = "none"
    /\ wpc = [w \in Workers |-> "none"]
    /\ attempt = [w \in Workers |-> 0]
    /\ result = [w \in Workers |-> ""]
    /\ processErr = [w \in Workers |-> nil]
    /\ processedChunks = <<>>
    /\ errorCount = 0
    /\ combinedContent = ""
    /\ written = NotWritten
    /\ summary = NoRatio
    /\ processBar = 0
    /\ calls = [w \in Workers |-> 0]
    /\ sleeps = [w \in Workers |-> 0]
    /\ slotWrites = [w \in Workers |-> 0]
    /\ closes = 0
    /\ outOfOrder = FALSE
    /\ requestIssued = FALSE

\* the chunking loop is not being followed byte by byte
ReaderOff == [pc |-> "off"]

\* processChunk is not being followed on its own
ParserOff == [pc |-> "off"]

Init ==
    /\ \E cl \in CommandLines : \E n \in 0 .. MaxChunks : MainInit(cl, n)
    /\ rd = ReaderOff
    /\ px = ParserOff

\* the variables of the specifications of single functions
sideVars == <<rd, px>>

flagVars == <<inputFile, apiEndpoint, outputFile, file, sideVars>>

workerVars == <<wpc, attempt, result, processErr, calls, sleeps, requestIssued>>

chanVars == <<results, closed, panicked, closes>>

collectVars == <<processedChunks, errorCount, slotWrites, outOfOrder>>

\* the variables of main and its goroutines
mainVars == <<inputFile, apiEndpoint, outputFile, file, pc, exitCode, fatalAt, chunks, i,
              wg, semaphore, chanVars, closer, workerVars, collectVars,
              combinedContent, written, summary, processBar>>

\* os.Exit(1), also through log.Fatalf
Fatal == pc' = "exit" /\ exitCode' = 1 /\ fatalAt' = pc

\* mutant: the -api value is not validated
FlagsValidInputOnly(input, api) == input # ""

\* lines 67, 74: the flags pass both checks
FlagsValid(input, api) == input # "" /\ api \in {"generate", "chat"}

\* lines 66-78
CheckFlags ==
    /\ Running /\ pc = "flags"
    /\ IF ~FlagsValid(inputFile, apiEndpoint)
       THEN Fatal
       ELSE pc' = "stat" /\ UNCHANGED <<exitCode, fatalAt>>
    /\ UNCHANGED <<flagVars, chunks, i, wg, semaphore, chanVars, closer, workerVars,
                   collectVars, combinedContent, written, summary, processBar>>

\* lines 80-85: os.Stat(*inputFile)
StatInput ==
    /\ Running /\ pc = "stat"
    /\ \E ok \in BOOLEAN : IF ok THEN pc' = "open" /\ UNCHANGED <<exitCode, fatalAt>> ELSE Fatal
    /\ UNCHANGED <<flagVars, chunks, i, wg, semaphore, chanVars, closer, workerVars,
                   collectVars, combinedContent, written, summary, processBar>>

\* lines 94-98: os.Open(*inputFile)
OpenInput ==
    /\ Running /\ pc = "open"
    /\ \E ok \in BOOLEAN : IF ok THEN pc' = "chunking" /\ UNCHANGED <<exitCode, fatalAt>> ELSE Fatal
    /\ UNCHANGED <<flagVars, chunks, i, wg, semaphore, chanVars, closer, workerVars,
                   collectVars, combinedContent, written, summary, processBar>>

\* lines 119-159: the chunking loop (a read error is fatal), then the
\* semaphore and the results channel are made
ReadChunks ==
    /\ Running /\ pc = "chunking"
    /\ \E ok \in BOOLEAN :
         IF ok THEN pc' = "loop" /\ chunks' = file /\ UNCHANGED <<exitCode, fatalAt>>
         ELSE Fatal /\ UNCHANGED chunks
    /\ UNCHANGED <<flagVars, i, wg, semaphore, chanVars, closer, workerVars,
                   collectVars, combinedContent, written, summary, processBar>>

\* mutant: the gate admits one chunk too many
SemaphoreCapOffByOne == maxConcurrentRequests + 1

\* mutant: every chunk gets a slot
SemaphoreCapPerChunk == MaxChunks

\* line 158: capacity of the semaphore channel
SemaphoreCap == maxConcurrentRequests

\* mutant: the results channel has as many places as the gate has slots
ResultsCapOfGate == maxConcurrentRequests

\* line 159: capacity of the results channel
ResultsCap == Len(chunks)

\* lines 162-163: the loop ends when no chunk remains, else wg.Add(1)
WgAdd ==
    /\ Running /\ pc = "loop"
    /\ IF i < N
       THEN wg' = wg + 1 /\ pc' = "acquire"
       ELSE pc' = "closer" /\ UNCHANGED wg
    /\ UNCHANGED <<flagVars, exitCode, fatalAt, chunks, i, semaphore, chanVars,
                   closer, workerVars, collectVars, combinedContent, written, summary, processBar>>

\* line 164: semaphore <- struct{}{} blocks while the channel is full
Acquire ==
    /\ Running /\ pc = "acquire"
    /\ semaphore < SemaphoreCap
    /\ semaphore' = semaphore + 1
    /\ pc' = "go"
    /\ UNCHANGED <<flagVars, exitCode, fatalAt, chunks, i, wg, chanVars,
                   closer, workerVars, collectVars, combinedContent, written, summary, processBar>>

\* line 176: a retry waits before trying again
NeedsDelay(a) == a > 0

\* lines 166, 196: go func(i, chunk); the worker enters its loop with attempt 0
Go ==
    /\ Running /\ pc = "go"
    /\ wpc' = [wpc EXCEPT ![i] = IF NeedsDelay(0) THEN "sleep" ELSE "call"]
    /\ attempt' = [attempt EXCEPT ![i] = 0]
    /\ i' = i + 1
    /\ pc' = "loop"
    /\ UNCHANGED <<flagVars, exitCode, fatalAt, chunks, wg, semaphore, chanVars,
                   closer, result, processErr, calls, sleeps, requestIssued,
                   collectVars, combinedContent, written, summary, processBar>>

\* mutant: the delay is taken under a lock all workers need
SuspendedAll(idx) == Workers

\* line 177: time.Sleep suspends the goroutine that calls it
Suspended(idx) == {idx}

Blocked(idx) == \E w \in Workers \ {idx} : wpc[w] = "sleep" /\ idx \in Suspended(w)

\* mutant: no break on success
LoopContinuesNoBreak(a, err) == a + 1 < maxRetries

\* lines 174, 181-183: the loop goes on after attempt a returned err
LoopContinues(a, err) == err # nil /\ a + 1 < maxRetries

\* lines 180-186: one call of processChunk and the loop's next step
Call(idx) ==
    /\ Running /\ wpc[idx] = "call" /\ ~Blocked(idx)
    /\ \E reply \in Replies(apiEndpoint, idx, attempt[idx]) :
         LET r == processChunk(ModelName, chunks[Slot(idx)], apiEndpoint, reply)
         IN  /\ result' = [result EXCEPT ![idx] = r.text]
             /\ processErr' = [processErr EXCEPT ![idx] = r.err]
             /\ calls' = [calls EXCEPT ![idx] = @ + 1]
             /\ requestIssued' = TRUE
             /\ IF LoopContinues(attempt[idx], r.err)
                THEN /\ attempt' = [attempt EXCEPT ![idx] = @ + 1]
                     /\ wpc' = [wpc EXCEPT ![idx] =
                                  IF NeedsDelay(attempt[idx] + 1) THEN "sleep" ELSE "call"]
                ELSE /\ attempt' = [attempt EXCEPT ![idx] =
                                      IF r.err = nil THEN @ ELSE @ + 1]
                     /\ wpc' = [wpc EXCEPT ![idx] = "send"]
    /\ UNCHANGED <<flagVars, pc, exitCode, fatalAt, chunks, i, wg, semaphore, chanVars,
                   closer, sleeps, collectVars, combinedContent, written, summary, processBar>>

\* line 177: the retry delay elapses
Wake(idx) ==
    /\ Running /\ wpc[idx] = "sleep" /\ ~Blocked(idx)
    /\ wpc' = [wpc EXCEPT ![idx] = "call"]
    /\ sleeps' = [sleeps EXCEPT ![idx] = @ + 1]
    /\ UNCHANGED <<flagVars, pc, exitCode, fatalAt, chunks, i, wg, semaphore, chanVars,
                   closer, attempt, result, processErr, calls, requestIssued,
                   collectVars, combinedContent, written, summary, processBar>>

\* mutant: a failed chunk yields empty content
FallbackEmpty(content) == ""

\* line 190: the original content stands in for a failed chunk
FallbackContent(content) == content

\* mutant: the closure reads the loop variable i instead of its parameter
ChunkResultOfLoopVar(idx, content, text, err) ==
    IF err # nil
    THEN [Index |-> i, Content |-> content, Error |-> err]
    ELSE [Index |-> i, Content |-> text, Error |-> nil]

\* lines 188-193: the ChunkResult the worker sends
ChunkResultOf(idx, content, text, err) ==
    IF err # nil
    THEN [Index |-> idx, Content |-> FallbackContent(content), Error |-> err]
    ELSE [Index |-> idx, Content |-> text, Error |-> nil]

\* lines 188-193: results <- ChunkResult{...}; a send on a full channel
\* blocks, a send on a closed one panics: the goroutine runs its deferred
\* calls and then the process dies.  The loop's variables are not read after
\* the send
Send(idx) ==
    /\ Running /\ wpc[idx] = "send" /\ ~Blocked(idx)
    /\ IF closed
       THEN /\ panicked' = TRUE
            /\ wpc' = [wpc EXCEPT ![idx] = "panic_release"]
            /\ UNCHANGED results
       ELSE /\ Len(results) < ResultsCap
            /\ results' = Append(results,
                  ChunkResultOf(idx, chunks[Slot(idx)], result[idx], processErr[idx]))
            /\ wpc' = [wpc EXCEPT ![idx] = "bar"]
            /\ UNCHANGED panicked
    /\ attempt' = [attempt EXCEPT ![idx] = 0]
    /\ result' = [result EXCEPT ![idx] = ""]
    /\ calls' = [calls EXCEPT ![idx] = 0]
    /\ sleeps' = [sleeps EXCEPT ![idx] = 0]
    /\ UNCHANGED <<flagVars, pc, exitCode, fatalAt, chunks, i, wg, semaphore, closed,
                   closes, closer, processErr, requestIssued, collectVars,
                   combinedContent, written, summary, processBar>>

\* line 195: processBar.Add(1), a step of its own after the send
Bar(idx) ==
    /\ Running /\ wpc[idx] = "bar" /\ ~Blocked(idx)
    /\ processBar' = processBar + 1
    /\ wpc' = [wpc EXCEPT ![idx] = "release"]
    /\ UNCHANGED <<flagVars, pc, exitCode, fatalAt, chunks, i, wg, semaphore, chanVars,
                   closer, attempt, result, processErr, calls, sleeps, requestIssued,
                   collectVars, combinedContent, written, summary>>

\* mutant: the slot is released on the success path only
ReleasesSlotOnSuccess(err) == err = nil

\* line 168: the deferred release runs on every return of the worker
ReleasesSlot(err) == TRUE

\* line 168: <-semaphore, on the return of the worker and on its panic
Release(idx) ==
    /\ Running /\ wpc[idx] \in {"release", "panic_release"} /\ ~Blocked(idx)
    /\ IF ReleasesSlot(processErr[idx])
       THEN semaphore > 0 /\ semaphore' = semaphore - 1
       ELSE UNCHANGED semaphore
    /\ wpc' = [wpc EXCEPT ![idx] = IF @ = "release" THEN "wgdone" ELSE "panic_wgdone"]
    /\ UNCHANGED <<flagVars, pc, exitCode, fatalAt, chunks, i, wg, chanVars, closer,
                   attempt, result, processErr, calls, sleeps, requestIssued,
                   collectVars, combinedContent, written, summary, processBar>>

\* line 167: wg.Done(), and the goroutine returns: its locals are gone.  It
\* is the last deferred call: after it a panicking goroutine ends the process
\* with status 2
WgDone(idx) ==
    /\ Running /\ wpc[idx] \in {"wgdone", "panic_wgdone"} /\ ~Blocked(idx)
    /\ wg' = wg - 1
    /\ wpc' = [wpc EXCEPT ![idx] = "done"]
    /\ processErr' = [processErr EXCEPT ![idx] = nil]
    /\ IF wpc[idx] = "panic_wgdone"
       THEN pc' = "exit" /\ exitCode' = 2 /\ fatalAt' = "panic"
       ELSE UNCHANGED <<pc, exitCode, fatalAt>>
    /\ UNCHANGED <<flagVars, chunks, i, semaphore, chanVars,
                   closer, attempt, result, calls, sleeps, requestIssued, collectVars,
                   combinedContent, written, summary, processBar>>

\* lines 200, 206-207: go func() { wg.Wait(); close(results) }(), then the
\* output slice and the error counter are made
SpawnCloser ==
    /\ Running /\ pc = "closer"
    /\ closer' = "wait"
    /\ processedChunks' = [k \in 1 .. N |-> ""]
    /\ errorCount' = 0
    /\ pc' = "collect"
    /\ UNCHANGED <<flagVars, exitCode, fatalAt, chunks, i, wg, semaphore, chanVars,
                   workerVars, slotWrites, outOfOrder, combinedContent, written, summary, processBar>>

\* mutant: the wait returns only while workers are still running
WaitReturnsWhileBusy(counter) == counter > 0

\* mutant: the channel is closed without waiting for the workers
WaitReturnsAtOnce(counter) == TRUE

\* line 201: wg.Wait() returns when the counter is zero
WaitReturns(counter) == counter = 0

CloserWait ==
    /\ Running /\ closer = "wait"
    /\ WaitReturns(wg)
    /\ closer' = "close"
    /\ UNCHANGED <<flagVars, pc, exitCode, fatalAt, chunks, i, wg, semaphore, chanVars,
                   workerVars, collectVars, combinedContent, written, summary, processBar>>

\* line 202: close(results)
CloserClose ==
    /\ Running /\ closer = "close"
    /\ closed' = TRUE
    /\ closes' = closes + 1
    /\ closer' = "done"
    /\ UNCHANGED <<flagVars, pc, exitCode, fatalAt, chunks, i, wg, semaphore, results,
                   panicked, workerVars, collectVars, combinedContent, written, summary, processBar>>

\* mutant: every result is counted as an error
CountsEveryResult(res) == TRUE

\* line 210
CountsAsError(res) == res.Error # nil

\* mutant: the content is stored in every slot
StoreInEverySlot(slots, res) == [k \in DOMAIN slots |-> res.Content]

\* mutant: results are stored in the order they arrive
StoreByArrival(slots, res) ==
    [slots EXCEPT ![Cardinality({w \in Workers : slotWrites[w] > 0}) + 1] = res.Content]

\* lines 213, 215: processedChunks[result.Index] = result.Content
StoreResult(slots, res) == [slots EXCEPT ![Slot(res.Index)] = res.Content]

\* lines 209-217: one iteration of for result := range results
Collect ==
    /\ Running /\ pc = "collect"
    /\ results # <<>>
    /\ LET res == Head(results)
       IN  /\ results' = Tail(results)
           /\ errorCount' = IF CountsAsError(res) THEN errorCount + 1 ELSE errorCount
           /\ processedChunks' = StoreResult(processedChunks, res)
           /\ slotWrites' = [slotWrites EXCEPT ![res.Index] = @ + 1]
           /\ outOfOrder' = (outOfOrder \/ \E w \in Workers :
                                              w > res.Index /\ slotWrites[w] > 0)
    /\ UNCHANGED <<flagVars, pc, exitCode, fatalAt, chunks, i, wg, semaphore, closed,
                   panicked, closes, closer, workerVars, combinedContent, written, summary, processBar>>

\* lines 209, 219-220: the range loop ends on the closed, drained channel;
\* strings.Join(processedChunks, "\n\n")
Assemble ==
    /\ Running /\ pc = "collect"
    /\ results = <<>> /\ closed
    /\ combinedContent' = Join(processedChunks, Sep)
    /\ pc' = "mkdir"
    /\ UNCHANGED <<flagVars, exitCode, fatalAt, chunks, i, wg, semaphore, chanVars,
                   closer, workerVars, collectVars, written, summary, processBar>>

\* lines 222-229: os.MkdirAll of the output directory unless it is "."
MakeDir ==
    /\ Running /\ pc = "mkdir"
    /\ \E ok \in BOOLEAN :
         IF Dir(outputFile) # "." /\ ~ok THEN Fatal
         ELSE pc' = "write" /\ UNCHANGED <<exitCode, fatalAt>>
    /\ UNCHANGED <<flagVars, chunks, i, wg, semaphore, chanVars, closer, workerVars,
                   collectVars, combinedContent, written, summary, processBar>>

\* lines 231-250: os.WriteFile, the summary, and main returns
\* line 81-86: fileSize, the bytes of the input file
FileSize == Len(Join(file, ""))

\* float64(a) / float64(b) of two sizes, as %.2f prints it: a quotient, or
\* +Inf or NaN when the divisor is zero
Quotient(a, b) ==
    IF b # 0 THEN "quotient" ELSE IF a = 0 THEN "NaN" ELSE "+Inf"

\* lines 241-249: os.Stat of the output file and the compression ratio line
RatioLine(fileSize, statErr, outSize) ==
    IF statErr THEN NoRatio
    ELSE [printed |-> TRUE, ratio |-> Quotient(fileSize, outSize),
          from |-> fileSize, to |-> outSize]

\* the strings that are the first bytes of a chunk's text or of an answer,
\* which are a letter followed by the chunk's index
TextPrefixes(text) ==
    {"", text} \cup {h \in {"c", "r"} : \E w \in Workers : text = h \o ToString(w)}

\* the strings that are the first bytes of the separator followed by text
SepPrefixes(text) == {"", "\n"} \cup {Sep \o p : p \in TextPrefixes(text)}

\* the strings that are the first n bytes of strings.Join(slots, "\n\n"), for
\* every n from 0 to its length
BytePrefixes(slots) ==
    IF slots = <<>> THEN {""}
    ELSE TextPrefixes(slots[1])
           \cup UNION {{Join(SubSeq(slots, 1, k), Sep) \o p :
                           p \in SepPrefixes(slots[k + 1])} :
                        k \in 1 .. Len(slots) - 1}

\* what a failed os.WriteFile leaves: the file as it was when it cannot be
\* opened, else the bytes of the content stored before the error, any number
\* of them (all when it is the close that fails)
FailedWrites(slots) == {NotWritten} \cup BytePrefixes(slots)

\* lines 231-249
WriteOutput ==
    /\ Running /\ pc = "write"
    /\ \E ok \in BOOLEAN :
         IF ok
         THEN /\ written' = combinedContent /\ pc' = "done" /\ exitCode' = 0
              /\ \E statErr \in BOOLEAN :
                    summary' = RatioLine(FileSize, statErr, Len(combinedContent))
              /\ UNCHANGED fatalAt
         ELSE /\ Fatal
              /\ written' \in FailedWrites(processedChunks)
              /\ UNCHANGED summary
    /\ UNCHANGED <<flagVars, chunks, i, wg, semaphore, chanVars, closer, workerVars,
                   collectVars, combinedContent, processBar>>

\* lines 237-238: the counts of the summary line
ReportedErrors == errorCount

ReportedSuccesses == Len(chunks) - errorCount

Next ==
    \/ CheckFlags
    \/ StatInput
    \/ OpenInput
    \/ ReadChunks
    \/ WgAdd
    \/ Acquire
    \/ Go
    \/ \E idx \in Workers : Call(idx)
    \/ \E idx \in Workers : Wake(idx)
    \/ \E idx \in Workers : Send(idx)
    \/ \E idx \in Workers : Bar(idx)
    \/ \E idx \in Workers : Release(idx)
    \/ \E idx \in Workers : WgDone(idx)
    \/ SpawnCloser
    \/ CloserWait
    \/ CloserClose
    \/ Collect
    \/ Assemble
    \/ MakeDir
    \/ WriteOutput

Spec == Init /\ [][Next]_vars

\* the runs on the generate endpoint
LiveInit ==
    /\ \E n \in 0 .. MaxChunks :
         MainInit([input |-> "in.txt", api |-> "generate", output |-> "llm.txt"], n)
    /\ rd = ReaderOff
    /\ px = ParserOff

\* The Go scheduler runs every goroutine that can take a step, a retry
\* delay ends, and every HTTP attempt returns (requestTimeout, line 50): a run
\* does not stop while one of its goroutines can take a step.
FairSpec == LiveInit /\ [][Next]_vars /\ WF_vars(Next)

----------------------------------------------------------------------------
(* The chunking loop (lines 101-135) on its own.  A chunk is the span of   *)
(* file bytes it holds, [from |-> offset of its first byte, len |-> n].    *)
(* rd is [pc, size, pos, r, w, err, spans, shorts, failed]: size the       *)
(* length of the stream, pos the bytes the file has delivered, r and w the *)
(* read and write positions of the bufio.Reader's buffer, err its kept     *)
(* error, spans the chunks appended, shorts the short reads so far,        *)
(* failed whether the file returned an error other than io.EOF.            *)

chunkSize == 4000

\* bufio.NewReader(file): the buffer of a default bufio.Reader
bufSize == 4096

MaxBlocks == 2

MaxShortReads == 2

\* line 102: totalChunks
TotalChunks(fileSize) == (fileSize + chunkSize - 1) \div chunkSize

Min(a, b) == IF a < b THEN a ELSE b

FileSizes ==
    {0, 1, chunkSize - 1, chunkSize, chunkSize + 1, bufSize, bufSize + 1}
      \cup {k * chunkSize : k \in 2 .. MaxBlocks}
      \cup {k * bufSize + 1 : k \in 2 .. MaxBlocks}

\* what one Read of the file into a buffer of cap bytes may return: at the end
\* of the file 0 bytes and io.EOF; before it a full read or, MaxShortReads
\* times, a short one; or no bytes and an error
FileReads(rdr, cap) ==
    LET rem  == rdr.size - rdr.pos
        full == Min(cap, rem)
        ns   == {full} \cup (IF rdr.shorts < MaxShortReads
                             THEN {k \in {1, 96} : k < full} ELSE {})
    IN  IF rem = 0
        THEN {[n |-> 0, err |-> "EOF"], [n |-> 0, err |-> "EIO"]}
        ELSE {[n |-> k, err |-> nil] : k \in ns}
               \cup {[n |-> 0, err |-> "EIO"]}

\* mutant: the whole chunk buffer is kept, not what was read
WholeBuffer(n) == chunkSize

\* line 133: chunk[:n]
Kept(n) == n

\* bufio.Reader.Read(chunk) at line 124, the file answering got to the one
\* Read that an empty buffer needs: [n, err, from, rdr]
BufRead(rdr, got) ==
    IF rdr.r = rdr.w /\ rdr.err # nil
    THEN [n |-> 0, err |-> rdr.err, from |-> rdr.pos, rdr |-> [rdr EXCEPT !.err = nil]]
    ELSE LET filled == IF rdr.r = rdr.w
                       THEN [rdr EXCEPT !.r = 0, !.w = got.n, !.err = got.err,
                                        !.pos = @ + got.n,
                                        !.shorts = IF got.n < Min(bufSize, rdr.size - rdr.pos)
                                                   THEN @ + 1 ELSE @,
                                        !.failed = @ \/ got.err = "EIO"]
                       ELSE rdr
         IN  IF filled.r = filled.w
             THEN [n |-> 0, err |-> filled.err, from |-> filled.pos,
                   rdr |-> [filled EXCEPT !.err = nil]]
             ELSE LET n == Min(chunkSize, filled.w - filled.r)
                  IN  [n |-> n, err |-> nil,
                       from |-> filled.pos - filled.w + filled.r,
                       rdr |-> [filled EXCEPT !.r = @ + n]]

\* lines 122-135: one iteration of the loop
ReadChunk ==
    /\ rd.pc = "read"
    /\ \E got \in FileReads(rd, bufSize) :
         LET res == BufRead(rd, got)
         IN  rd' = IF res.err = "EOF" THEN [res.rdr EXCEPT !.pc = "done"]
                   ELSE IF res.err # nil THEN [res.rdr EXCEPT !.pc = "fatal"]
                   ELSE [res.rdr EXCEPT
                           !.spans = Append(@, [from |-> res.from, len |-> Kept(res.n)])]
    /\ UNCHANGED <<mainVars, px>>

RegularRun == [input |-> "in.txt", api |-> "generate", output |-> "llm.txt"]

\* the file has been opened and its size taken; the run itself is not followed
InitChunk ==
    /\ MainInit(RegularRun, 0)
    /\ px = ParserOff
    /\ \E size \in FileSizes :
         rd = [pc |-> "read", size |-> size, pos |-> 0, r |-> 0, w |-> 0, err |-> nil,
               spans |-> <<>>, shorts |-> 0, failed |-> FALSE]

NextChunk == ReadChunk

SpecChunk == InitChunk /\ [][NextChunk]_vars

----------------------------------------------------------------------------
(* processChunk on its own, on replies with status 200.  px is             *)
(* [pc, api, reply, out]: the endpoint, the reply of the service and what  *)
(* processChunk returns for it.                                            *)

MaxLines == 3

\* the line {}
EmptyObject == JObj(<<>>)

\* the line {"Response":"EF","Done":true}
UpperLine ==
    JObj([k \in {"Response", "Done"} |-> IF k = "Response" THEN JStr("EF") ELSE JBool(TRUE)])

\* the line {"response":7,"done":true}
NumberLine ==
    JObj([k \in {"response", "done"} |-> IF k = "response" THEN JNum(7) ELSE JBool(TRUE)])

\* a done line of maxScanTokenSize bytes: too long for the Scanner, unless
\* the body ends with it
OverLongLine == Padded(GenLine("gh", TRUE), maxScanTokenSize)

\* a done line one byte longer: too long for the Scanner wherever it stands
BeyondLine == Padded(GenLine("kl", TRUE), maxScanTokenSize + 1)

\* a done line one byte shorter: the longest the Scanner delivers
LongestLine == Padded(GenLine("ij", TRUE), maxScanTokenSize - 1)

\* lines that json.Unmarshal decodes into an OllamaGenerateResponse
WellFormedLines ==
    {GenLine("ab", FALSE), GenLine("cd", TRUE), EmptyObject, JNull, UpperLine,
     OverLongLine, LongestLine, BeyondLine}

\* lines that it rejects: a blank or cut line, a JSON string, a response
\* that is a number
MalformedLines == {JBad, JStr("ab"), NumberLine}

GenerateBodies ==
    UNION {[1 .. n -> WellFormedLines \cup MalformedLines] : n \in 0 .. MaxLines}

\* {"message": m} with further fields more
MessageDoc(key, m, more) ==
    JObj([k \in {key} \cup DOMAIN more |-> IF k = key THEN m ELSE more[k]])

\* {"content": c} under the spelling key
ContentObj(key, c) == JObj([k \in {key} |-> c])

\* "done":"yes", a value that does not fit the bool field
BadDone == [done |-> JStr("yes")]

ChatDocs ==
    {ChatDoc("hello"), EmptyObject, JNull, JBad, JStr("x"),
     MessageDoc("message", JStr("hi"), <<>>)}
      \cup {MessageDoc(mk, ContentObj(ck, c), more) :
               mk \in {"message", "Message"}, ck \in {"content", "Content"},
               c \in {JStr("x"), JStr(""), JNum(7)}, more \in {<<>>, BadDone}}

\* the body holds one JSON text, none, or two
ChatBodies ==
    {<<d>> : d \in ChatDocs} \cup {<<>>, <<ChatDoc("hello"), ChatDoc("x")>>}

Bodies(api) == IF api = "generate" THEN GenerateBodies ELSE ChatBodies

\* how a body can end: an empty body has no last line
Endings(body) == IF body = <<>> THEN {FALSE} ELSE BOOLEAN

\* where a failing read can fall: the lines delivered after it were in the
\* Scanner's buffer together, so each of them is shorter than the buffer, or
\* is the one line that fills it; an error that comes with the last bytes of
\* the body comes before the last line is delivered
ErrPoints(body, endsWithData) ==
    {e \in 1 .. Len(body) + 1 :
       /\ endsWithData => e <= Len(body)
       /\ \A k \in e .. Len(body) :
            body[k].t = "padded" =>
              \/ body[k].len < maxScanTokenSize
              \/ body[k].len = maxScanTokenSize /\ ~TooLong(body, k, endsWithData)
                                                 /\ e = k}

\* processChunk is called and the service replies with status 200
InitParse ==
    /\ MainInit(RegularRun, 0)
    /\ rd = ReaderOff
    /\ \E api \in {"generate", "chat"} : \E body \in Bodies(api) : \E readErr \in BOOLEAN :
         \E ends \in Endings(body) :
         \E errAt \in IF readErr THEN ErrPoints(body, ends) ELSE {Len(body) + 1} :
           px = [pc |-> "call", api |-> api,
                 reply |-> [net |-> TRUE, status |-> StatusOK, body |-> body,
                            readErr |-> readErr, errAt |-> errAt,
                            endsWithData |-> ends],
                 out |-> [text |-> "", err |-> nil]]

\* lines 253-352: the call returns
ParseReply ==
    /\ px.pc = "call"
    /\ px' = [px EXCEPT !.pc = "ret",
                        !.out = processChunk(ModelName, ChunkText(0), px.api, px.reply)]
    /\ UNCHANGED <<mainVars, rd>>

NextParse == ParseReply

SpecParse == InitParse /\ [][NextParse]_vars

----------------------------------------------------------------------------
(* Properties *)

Chunk == 0 .. N - 1

\* the workers whose Retrying Caller invocation holds a slot: admitted and not
\* yet past <-semaphore
Holders == {w \in Workers : wpc[w] \in {"call", "sleep", "send", "bar", "release"}}

\* the dispatcher holds a slot for the worker it is about to start
Admitting == IF pc = "go" THEN 1 ELSE 0

\* the collection loop has ended
Collected == pc \in {"mkdir", "write", "done"} \/ fatalAt \in {"mkdir", "write"}

\* the results sent so far: those buffered and those collected
SentIndices == {results[k].Index : k \in 1 .. Len(results)}
                 \cup {w \in Workers : slotWrites[w] > 0}

\* C1: in every reachable state at most maxConcurrentRequests chunks are
\* active (admitted, in an attempt or a retry delay or sending, slot not yet
\* released), under every interleaving of the dispatcher and the workers.
C1_AtMostKActive ==
    Cardinality(Holders) + Admitting <= maxConcurrentRequests

\* the gate is full with every holder in an attempt or a delay while the
\* dispatcher waits to admit a further chunk
C1_Witness ==
    /\ pc = "acquire"
    /\ Cardinality({w \in Workers : wpc[w] \in {"call", "sleep"}}) = maxConcurrentRequests
    /\ \E w \in Workers : wpc[w] = "sleep"

\* C2: when collection ends exactly N results have been delivered, one per
\* index 0..N-1; every index sent is within the output slice, no index is
\* sent twice, and each output slot is written exactly once.
C2_ExactlyOnce ==
    /\ \A k \in 1 .. Len(results) : results[k].Index \in Chunk
    /\ \A k, m \in 1 .. Len(results) : results[k].Index = results[m].Index => k = m
    /\ \A k \in 1 .. Len(results) : slotWrites[results[k].Index] = 0
    /\ \A w \in Workers : slotWrites[w] <= 1
    /\ \A w \in Workers : slotWrites[w] = 1 =>
         w \in Chunk /\ wpc[w] \in {"bar", "release", "wgdone", "done"}
    /\ Collected =>
         /\ results = <<>>
         /\ Len(processedChunks) = N
         /\ \A w \in Workers : slotWrites[w] = (IF w \in Chunk THEN 1 ELSE 0)

\* a run of MaxChunks chunks, with failures, has been collected out of order
C2_Witness ==
    /\ pc = "done" /\ N = MaxChunks /\ outOfOrder
    /\ errorCount > 0 /\ errorCount < N
    /\ \A w \in Chunk : slotWrites[w] = 1

\* C3: the results channel is closed only after every worker has sent its
\* result and finished; no worker sends on a closed channel, the channel is
\* closed at most once, and collection ends only after all N results have
\* been received from the closed channel.
C3_CloseAfterAllSent ==
    /\ ~panicked
    /\ closes <= 1
    /\ closed = (closes = 1)
    /\ closed => /\ \A w \in Chunk : wpc[w] = "done"
                 /\ SentIndices = Chunk
                 /\ i = N
    /\ Collected => closed /\ \A w \in Chunk : slotWrites[w] = 1

\* the channel is closed while results of a full run are still buffered
C3_Witness ==
    /\ closed /\ N = MaxChunks /\ Len(results) >= 2 /\ pc = "collect"

\* what chunk idx contributes to the output
Piece(idx, succeeded) == IF succeeded THEN Answer(idx) ELSE ChunkText(idx)

\* C4: the assembled output is the result contents joined in ascending
\* chunk-index order with "\n\n", whatever the order in which the workers
\* finished: it is determined by which chunks succeeded.
C4_JoinedByIndex ==
    pc \in {"mkdir", "write", "done"} =>
        /\ \E ok \in SUBSET Chunk :
             /\ Cardinality(Chunk \ ok) = errorCount
             /\ combinedContent = Join([k \in 1 .. N |-> Piece(k - 1, k - 1 \in ok)], Sep)
        /\ (N = 3 /\ errorCount = 0) => combinedContent = "r0\n\nr1\n\nr2"
        /\ N = 0 => combinedContent = ""

\* three results that arrived out of index order have been assembled
C4_Witness ==
    /\ pc = "write" /\ N = 3 /\ errorCount = 0 /\ outOfOrder
    /\ combinedContent = "r0\n\nr1\n\nr2"

\* C5: a chunk whose attempts all fail gets exactly maxRetries attempts, its
\* result carries a non-nil error and the original chunk content, and the
\* run still completes and writes the output file.
C5_ExhaustedFallsBack ==
    /\ \A w \in Workers :
         /\ calls[w] <= maxRetries
         /\ wpc[w] = "send" /\ processErr[w] # nil =>
              /\ calls[w] = maxRetries
              /\ ChunkResultOf(w, chunks[Slot(w)], result[w], processErr[w])
                   = [Index |-> w, Content |-> ChunkText(w), Error |-> processErr[w]]
         /\ wpc[w] \in {"call", "sleep"} => calls[w] < maxRetries
    /\ \A k \in 1 .. Len(results) :
         results[k].Error # nil => results[k].Content = ChunkText(results[k].Index)
    /\ fatalAt # "panic"
    /\ (Collected /\ errorCount = N) =>
         processedChunks = [k \in 1 .. N |-> ChunkText(k - 1)]
    /\ (pc = "done" /\ errorCount = N) =>
         written = Join([k \in 1 .. N |-> ChunkText(k - 1)], Sep) /\ exitCode = 0

\* every chunk of a full run failed and the output holds the original text
C5_Witness ==
    /\ pc = "done" /\ N = MaxChunks /\ errorCount = N
    /\ written = Join(chunks, Sep) /\ written # ""

\* what processChunk returns for the failure and for the answer of attempt a
FailureOf(idx, a) ==
    processChunk(ModelName, ChunkText(idx), apiEndpoint, FailureReply(a))

AnswerOf(idx) ==
    processChunk(ModelName, ChunkText(idx), apiEndpoint, AnswerReply(apiEndpoint, idx))

\* C6: attempts are made one at a time until the first success or until
\* maxRetries attempts have failed; no attempt follows a success; a refused
\* connection, a non-200 status and a parse failure each lead to the next
\* attempt; the result is the text of the successful attempt if one of the
\* first maxRetries attempts succeeded, else the error of the last attempt.
C6_RetryUntilSuccess ==
    \A w \in Workers :
      /\ wpc[w] = "call" =>
           /\ calls[w] = attempt[w] /\ attempt[w] < maxRetries
           /\ attempt[w] = 0 => processErr[w] = nil
           /\ attempt[w] > 0 => processErr[w] = FailureOf(w, attempt[w] - 1).err
      /\ wpc[w] = "sleep" =>
           /\ calls[w] = attempt[w] /\ attempt[w] > 0 /\ attempt[w] < maxRetries
           /\ processErr[w] = FailureOf(w, attempt[w] - 1).err
      /\ wpc[w] = "send" =>
           \/ /\ processErr[w] = nil
              /\ result[w] = Answer(w)
              /\ calls[w] = attempt[w] + 1 /\ calls[w] <= maxRetries
           \/ /\ processErr[w] = FailureOf(w, maxRetries - 1).err
              /\ calls[w] = maxRetries /\ attempt[w] = maxRetries
      /\ (wpc[w] = "call" /\ attempt[w] = 0) =>
           /\ \A a \in 0 .. maxRetries - 1 : FailureOf(w, a).err # nil
           /\ AnswerOf(w) = [text |-> Answer(w), err |-> nil]

\* a chunk succeeds on its last attempt, after a refused connection and an
\* error status
C6_Witness ==
    \E w \in Chunk :
      /\ wpc[w] = "send" /\ calls[w] = maxRetries
      /\ processErr[w] = nil /\ result[w] = Answer(w)

\* C7: every slot acquired is released exactly once, on success and on
\* exhausted retries alike: the slots held are exactly those of the admitted
\* workers that have not yet released, no release happens without a matching
\* acquire, and once all workers have finished no slot is held.
C7_SlotsBalanced ==
    /\ semaphore = Cardinality(Holders) + Admitting
    /\ semaphore >= 0
    /\ (i = N /\ \A w \in Chunk : wpc[w] \in {"wgdone", "done"}) => semaphore = 0
    /\ Collected => semaphore = 0

\* a full run with failed chunks has ended with no slot held
C7_Witness ==
    /\ pc = "done" /\ N = MaxChunks /\ errorCount > 0 /\ semaphore = 0

\* C8: no delay precedes a chunk's first attempt, exactly one delay separates
\* consecutive attempts of a chunk, and a worker waiting out its retry delay
\* blocks no other worker: each of them can take its next step.
C8_DelayIsLocal ==
    \A w \in Workers :
      /\ wpc[w] = "call" => sleeps[w] = attempt[w] /\ sleeps[w] = calls[w]
      /\ wpc[w] = "sleep" => attempt[w] > 0 /\ sleeps[w] = calls[w] - 1
      /\ wpc[w] = "send" => sleeps[w] = calls[w] - 1
      /\ wpc[w] = "sleep" =>
           \A v \in Workers \ {w} :
             /\ wpc[v] = "call" => ENABLED Call(v)
             /\ wpc[v] = "sleep" => ENABLED Wake(v)
             /\ wpc[v] = "send" => ENABLED Send(v)
             /\ wpc[v] = "bar" => ENABLED Bar(v)
             /\ wpc[v] = "release" => ENABLED Release(v)
             /\ wpc[v] = "wgdone" => ENABLED WgDone(v)

\* one worker waits out a delay while another is in its first attempt and a
\* third is sending
C8_Witness ==
    \E w, v, u \in Chunk :
      /\ wpc[w] = "sleep" /\ sleeps[w] = 1
      /\ wpc[v] = "call" /\ attempt[v] = 0
      /\ wpc[u] = "send"

\* the chunks whose output slot holds the fallback content
FailedChunks == {w \in Chunk : processedChunks[Slot(w)] = ChunkText(w)}

\* C9: per-chunk failures never abort the run: the process exits non-zero
\* only through a setup error, never out of dispatch or collection; at
\* completion the output is written, the exit code is 0, the reported error
\* count is the number of chunks that exhausted their attempts, and
\* successes plus errors is N.
C9_FailuresAbsorbed ==
    /\ exitCode \in {-1, 0, 1}
    /\ exitCode = 1 => fatalAt \in {"flags", "stat", "open", "chunking", "mkdir", "write"}
    /\ pc \in {"loop", "acquire", "go", "closer", "collect"} => fatalAt = "none"
    /\ pc = "done" =>
         /\ exitCode = 0 /\ fatalAt = "none"
         /\ written = combinedContent
         /\ ReportedErrors = Cardinality(FailedChunks)
         /\ ReportedSuccesses = Cardinality({w \in Chunk : processedChunks[Slot(w)] = Answer(w)})
         /\ ReportedSuccesses + ReportedErrors = N

\* a run with both failed and successful chunks has completed
C9_Witness ==
    /\ pc = "done" /\ exitCode = 0 /\ N = MaxChunks
    /\ ReportedErrors = 2 /\ ReportedSuccesses = N - 2
    /\ written # NotWritten

\* the strings that are the last bytes of a chunk's text or of an answer
TextSuffixes(text) ==
    {"", text} \cup {ToString(w) : w \in {v \in Workers : \E h \in {"c", "r"} :
                                                        text = h \o ToString(v)}}

\* the strings that are the last bytes of strings.Join(slots, "\n\n")
ByteSuffixes(slots) ==
    IF slots = <<>> THEN {""}
    ELSE TextSuffixes(slots[Len(slots)])
           \cup UNION {{s \o Sep \o Join(SubSeq(slots, k + 1, Len(slots)), Sep) :
                           s \in TextSuffixes(slots[k])} :
                        k \in 1 .. Len(slots) - 1}
           \cup {"\n" \o Join(SubSeq(slots, k + 1, Len(slots)), Sep) :
                    k \in 1 .. Len(slots) - 1}

\* C10 as stated: no request is issued in a run that a SetupError then ends.
C10_NoRequestBeforeSetupError ==
    ~(exitCode = 1 /\ fatalAt # "none" /\ requestIssued)

\* C10 amended: bad flags and input-file errors (stat, open, read) end the
\* process before any chunk is dispatched or any request issued; an output
\* path error (directory creation, write) ends it with exit code 1, but only
\* after every chunk has been processed and collected; the output file is
\* then untouched, or, when the write itself fails, holds the first bytes of
\* the content, any number of them.
C10_SetupErrorsFatal ==
    /\ (inputFile = "" \/ apiEndpoint \notin {"generate", "chat"}) =>
         /\ pc \in {"flags", "exit"}
         /\ ~requestIssued
    /\ fatalAt \in {"flags", "stat", "open", "chunking"} =>
         /\ exitCode = 1 /\ pc = "exit"
         /\ ~requestIssued /\ i = 0 /\ \A w \in Workers : wpc[w] = "none"
         /\ written = NotWritten
    /\ fatalAt \in {"mkdir", "write"} =>
         /\ exitCode = 1 /\ pc = "exit"
         /\ \/ written = NotWritten
            \/ /\ fatalAt = "write"
               /\ Len(written) <= Len(combinedContent)
               /\ \E rest \in ByteSuffixes(processedChunks) :
                    written \o rest = combinedContent
         /\ \A w \in Chunk : wpc[w] = "done" /\ slotWrites[w] = 1
         /\ requestIssued = (N > 0)

\* the write of the output fails part-way after the chunks of a full run were
\* processed
C10_Witness ==
    /\ fatalAt = "write" /\ exitCode = 1 /\ requestIssued /\ N = MaxChunks
    /\ written \notin {NotWritten, combinedContent}
    /\ \A k \in 0 .. N : written # Join(SubSeq(processedChunks, 1, k), Sep)

----------------------------------------------------------------------------
(* The chunking loop.                                                      *)

\* the bytes of the stream the chunks hold, when they are laid end to end
Covered ==
    IF rd.spans = <<>> THEN 0
    ELSE rd.spans[Len(rd.spans)].from + rd.spans[Len(rd.spans)].len

\* the chunks are consecutive spans of the stream, starting at its first byte
Consecutive ==
    \A k \in 1 .. Len(rd.spans) :
        rd.spans[k].from = IF k = 1 THEN 0
                           ELSE rd.spans[k - 1].from + rd.spans[k - 1].len

\* C11: whatever sizes the reads of the file return, every chunk has at most
\* chunkSize bytes, the chunks in index order are the bytes of the stream in
\* order with none left out or repeated, the loop ends when and only when the
\* whole stream has been chunked, and the run aborts exactly when a read
\* returned an error other than end of stream.
C11_ChunksRoundTrip ==
    rd.pc # "off" =>
        /\ \A k \in 1 .. Len(rd.spans) : rd.spans[k].len \in 0 .. chunkSize
        /\ Consecutive
        /\ Covered <= rd.size
        /\ rd.pc = "done" => Covered = rd.size
        /\ rd.pc = "read" => ENABLED ReadChunk
        /\ (rd.pc = "fatal") <=> rd.failed

\* a stream of bufSize + 1 bytes read with a short read has been chunked
C11_Witness ==
    /\ rd.pc = "done"
    /\ rd.size = bufSize + 1
    /\ rd.shorts > 0
    /\ Len(rd.spans) >= 3

\* C12: when every read of the file is full, the loop produces the announced
\* ceil(fileSize / chunkSize) chunks and every chunk but the last has exactly
\* chunkSize bytes.
C12_FixedSizeChunks ==
    (rd.pc = "done" /\ rd.shorts = 0) =>
        /\ Len(rd.spans) = TotalChunks(rd.size)
        /\ \A k \in 1 .. Len(rd.spans) - 1 : rd.spans[k].len = chunkSize
----------------------------------------------------------------------------
(* The response parsers.                                                   *)

\* the response field of a line, "" when it has none
ResponseOfText(l) ==
    IF l.t = "obj" /\ \E k \in DOMAIN l.f : Fold(k) = "response" /\ l.f[k].t = "str"
    THEN l.f[CHOOSE k \in DOMAIN l.f : Fold(k) = "response"].s
    ELSE ""

ResponseOf(l) == ResponseOfText(LineText(l))

\* the JSON text says done = true
IsDoneText(l) ==
    l.t = "obj" /\ \E k \in DOMAIN l.f : Fold(k) = "done" /\ l.f[k] = JBool(TRUE)

\* the line says done = true
IsDone(l) == IsDoneText(LineText(l))

\* the response fields of the first n lines, in line order
RECURSIVE Responses(_, _)
Responses(lines, n) ==
    IF n = 0 THEN "" ELSE Responses(lines, n - 1) \o ResponseOf(lines[n])

\* the lines at which the scan of a body ends before the end of the stream,
\* going by the claim: the malformed lines and the done lines
ClaimedStops(lines) ==
    {k \in 1 .. Len(lines) : lines[k] \in MalformedLines \/ IsDone(lines[k])}

\* line k is not delivered by the Scanner: it is longer than 64 KiB, or is
\* of 64 KiB and is not the last line of a body that ends with its data
Undelivered(lines, k, ends) ==
    \/ lines[k] = BeyondLine
    \/ lines[k] = OverLongLine /\ (k < Len(lines) \/ ~ends)

\* the lines at which it ends: those and the lines the Scanner does not
\* deliver
Stops(lines, ends) ==
    {k \in 1 .. Len(lines) : \/ lines[k] \in MalformedLines
                               \/ Undelivered(lines, k, ends)
                               \/ IsDone(lines[k])}

\* C13 as claimed: a generate reply with status 200, its body read without
\* error, yields the response fields, in line order, of the lines up to and
\* including the first done line, or of all lines when there is none; only a
\* malformed line at or before that point fails the attempt.
C13_AsClaimed ==
    (px.pc = "ret" /\ px.api = "generate" /\ ~px.reply.readErr) =>
        LET lines == px.reply.body
            last  == IF ClaimedStops(lines) = {} THEN Len(lines)
                     ELSE CHOOSE k \in ClaimedStops(lines) :
                            \A j \in ClaimedStops(lines) : k <= j
        IN  IF ClaimedStops(lines) # {} /\ lines[last] \in MalformedLines
            THEN px.out.err # nil /\ px.out.text = ""
            ELSE px.out.err = nil /\ px.out.text = Responses(lines, last)

\* C13: a generate reply with status 200 is scanned line by line up to the
\* first line that is malformed, is too long for the Scanner or says done.
\* Too long is a line of more than 65536 bytes, and one of exactly 65536
\* bytes unless it is the last line of the body, without line end, and the
\* end of the stream comes with its last bytes.  When that first line is
\* malformed or too long the attempt fails with the empty text, however
\* well-formed the long line is.  When it says done the result is the
\* response fields, in line order, of the lines up to and including it, and
\* what follows it has no effect, unless the Scanner had met a read error
\* before it delivered that line: then the attempt fails.  Without such a
\* line the result is the response fields of all lines (the empty text for an
\* empty body), unless reading the body failed: then the attempt fails.
C13_GenerateParse ==
    (px.pc = "ret" /\ px.api = "generate") =>
        LET lines  == px.reply.body
            ends   == px.reply.endsWithData
            stops  == Stops(lines, ends)
            first  == CHOOSE k \in stops : \A j \in stops : k <= j
            failed == px.out.err # nil /\ px.out.text = ""
        IN  IF stops = {}
            THEN IF px.reply.readErr THEN failed
                 ELSE px.out = [text |-> Responses(lines, Len(lines)), err |-> nil]
            ELSE IF lines[first] \in MalformedLines \/ Undelivered(lines, first, ends)
                 THEN failed
                 ELSE IF px.reply.readErr /\ px.reply.errAt <= first
                      THEN failed
                      ELSE px.out = [text |-> Responses(lines, first), err |-> nil]

\* a response line and then a well-formed done line of 64 KiB, the end of
\* the stream coming after it: the attempt has failed
C13_Witness ==
    /\ px.pc = "ret" /\ px.api = "generate"
    /\ px.reply.body = <<GenLine("ab", FALSE), OverLongLine>>
    /\ ~px.reply.readErr /\ ~px.reply.endsWithData
    /\ px.out.err # nil /\ px.out.text = ""

\* the body of a chat reply is one JSON object
IsObject(body) == Len(body) = 1 /\ body[1].t = "obj"

\* object doc has a string at message.content, the keys spelled so
ExactString(doc) ==
    /\ "message" \in DOMAIN doc.f
    /\ doc.f["message"].t = "obj"
    /\ "content" \in DOMAIN doc.f["message"].f
    /\ doc.f["message"].f["content"].t = "str"

\* object doc has a string at message.content, the keys in any case
FoldedString(doc) ==
    \E m \in DOMAIN doc.f :
        /\ Fold(m) = "message"
        /\ doc.f[m].t = "obj"
        /\ \E c \in DOMAIN doc.f[m].f : Fold(c) = "content" /\ doc.f[m].f[c].t = "str"

\* the string object doc has at message.content, the keys in any case
FoldedContent(doc) ==
    LET m == CHOOSE m \in DOMAIN doc.f : Fold(m) = "message"
        c == CHOOSE c \in DOMAIN doc.f[m].f : Fold(c) = "content"
    IN  doc.f[m].f[c].s

\* C14 as claimed: a chat reply with status 200 fails exactly when its body is
\* not a JSON object or has no string at message.content, and a reply that
\* succeeds returns that string.
C14_FailsIffNoContent ==
    (px.pc = "ret" /\ px.api = "chat" /\ ~px.reply.readErr) =>
        LET body == px.reply.body
        IN  /\ px.out.err # nil <=> (~IsObject(body) \/ ~ExactString(body[1]))
            /\ px.out.err = nil => px.out.text = body[1].f["message"].f["content"].s

\* C14: a chat reply with status 200 whose body is read without error is
\* parsed in two tiers.  If the body decodes into the canonical shape, whose
\* keys are matched without regard to case, with a non-empty message.content,
\* that content is returned; otherwise, if the body is a JSON object with a
\* string at the keys spelled message and content, that string is returned,
\* be it empty; in every other case the attempt fails with the empty text.
C14_ChatParse ==
    (px.pc = "ret" /\ px.api = "chat" /\ ~px.reply.readErr) =>
        LET body == px.reply.body
        IN  IF ~IsObject(body)
            THEN px.out.err # nil /\ px.out.text = ""
            ELSE IF /\ StrictChatOK(body[1])
                    /\ FoldedString(body[1])
                    /\ FoldedContent(body[1]) # ""
                 THEN px.out = [text |-> FoldedContent(body[1]), err |-> nil]
                 ELSE IF ExactString(body[1])
                      THEN px.out = [text |-> body[1].f["message"].f["content"].s,
                                     err |-> nil]
                      ELSE px.out.err # nil /\ px.out.text = ""

\* the body {"Message":{"Content":"x"}} has been parsed and x returned
C14_Witness ==
    /\ px.pc = "ret" /\ px.api = "chat" /\ ~px.reply.readErr
    /\ px.reply.body = <<MessageDoc("Message", ContentObj("Content", JStr("x")), <<>>)>>
    /\ px.out = [text |-> "x", err |-> nil]
----------------------------------------------------------------------------
(* The summary.                                                            *)

\* C15: a compression ratio line is printed only for an output file that has
\* bytes, and what it shows is then the quotient of the two sizes; for an
\* output of 0 bytes no line is printed and nothing is divided by zero.
C15_RatioOnlyForOutputBytes ==
    pc = "done" =>
        /\ summary.printed => Len(written) > 0 /\ summary.ratio = "quotient"
        /\ Len(written) = 0 => summary = NoRatio
----------------------------------------------------------------------------
(* Termination.                                                            *)

\* every chunk has been admitted, every worker has finished and the results
\* channel is closed
Finished ==
    /\ i = N
    /\ \A w \in 0 .. N - 1 : wpc[w] = "done"
    /\ wg = 0 /\ semaphore = 0
    /\ closed /\ ~panicked

\* that, and the output is written, or making its directory or writing it
\* has failed and the process has exited with status 1
Completed ==
    /\ Finished
    /\ \/ pc = "done" /\ written = combinedContent
       \/ pc = "exit" /\ exitCode = 1 /\ fatalAt \in {"mkdir", "write"}

----------------------------------------------------------------------------
(* Frame conditions.                                                       *)

\* the step is one of worker w
StepOf(w) == wpc[w] # "none" /\ wpc'[w] # wpc[w]

\* what a step of worker w leaves alone: the chunks, the output slice, the
\* error counter, the output, the position of main, the closing of the
\* channel, and the locals of every other worker
WorkerFrame(w) ==
    /\ chunks' = chunks
    /\ processedChunks' = processedChunks /\ errorCount' = errorCount
    /\ combinedContent' = combinedContent /\ written' = written
    /\ pc' = pc /\ i' = i /\ closed' = closed /\ closer' = closer
    /\ \A v \in Workers \ {w} :
         /\ wpc'[v] = wpc[v] /\ attempt'[v] = attempt[v]
         /\ result'[v] = result[v] /\ processErr'[v] = processErr[v]

\* what a step of worker w does to the results channel: nothing, or, once,
\* the send of a result tagged w made of its own content or its own answer
WorkerSend(w) ==
    \/ results' = results
    \/ /\ wpc[w] = "send" /\ w \notin SentIndices
       /\ \E c \in {result[w], chunks[Slot(w)]} : \E e \in {nil, processErr[w]} :
            results' = Append(results, [Index |-> w, Content |-> c, Error |-> e])

\* a step of worker w has no effect on the admission gate, the wait group or
\* the progress bar
NothingElseShared ==
    semaphore' = semaphore /\ wg' = wg /\ processBar' = processBar

\* what a step of worker w does to them: the progress bar is advanced by one
\* in the step after the send, which leaves the results channel alone, the
\* admission gate gives back one slot in the step after that, the wait group
\* is counted down by one in the worker's last step
WorkerShared(w) ==
    /\ IF wpc[w] = "bar"
       THEN processBar' = processBar + 1 /\ results' = results /\ wpc'[w] = "release"
       ELSE processBar' = processBar
    /\ IF wpc[w] = "release"
       THEN semaphore' = semaphore - 1 /\ wpc'[w] = "wgdone"
       ELSE semaphore' = semaphore
    /\ IF wpc[w] = "wgdone"
       THEN wg' = wg - 1 /\ wpc'[w] = "done"
       ELSE wg' = wg

\* the output slice and the error counter change in steps of main only:
\* when they are made, and when a result is collected, which changes the
\* slot of that result's index at most
CollectorOnly ==
    (processedChunks' # processedChunks \/ errorCount' # errorCount) =>
        /\ wpc' = wpc
        /\ \/ pc = "closer"
           \/ /\ pc = "collect" /\ results # <<>> /\ results' = Tail(results)
              /\ \A j \in Chunk \ {Head(results).Index} :
                   processedChunks'[Slot(j)] = processedChunks[Slot(j)]

\* C17 as claimed: the results channel is the only shared state a step of a
\* worker changes, by sending, once, a result tagged with its own index and
\* made of its own content; the output slice and the error counter are
\* written by main's collection alone, and collecting the result for index i
\* leaves every other slot as it was.
C17_AsClaimed ==
    [][/\ \A w \in Workers :
            StepOf(w) => WorkerFrame(w) /\ WorkerSend(w) /\ NothingElseShared
       /\ CollectorOnly]_vars

\* C17: a step of a worker changes none of the chunks, the output slice, the
\* error counter, main's variables or another worker's variables.  What the
\* workers share and change is the results channel, the progress bar, the
\* admission gate and the wait group: a worker sends, once, a result tagged
\* with its own index and made of its own content, advances the progress bar
\* by one with that send, then gives back its one slot of the gate and counts
\* the wait group down by one.  The output slice and the error counter are
\* written by main's collection alone, and collecting the result for index i
\* leaves every other slot as it was.
C17_WorkerFrames ==
    [][/\ \A w \in Workers :
            StepOf(w) => WorkerFrame(w) /\ WorkerSend(w) /\ WorkerShared(w)
       /\ CollectorOnly]_vars

\* results are being collected: one slot holds an answer, another a fallback,
\* a worker is still at work, the progress bar has advanced and a slot of the
\* gate has been given back
C17_Witness ==
    /\ pc = "collect"
    /\ \E a, b \in Chunk :
         /\ a # b /\ slotWrites[a] = 1 /\ slotWrites[b] = 1
         /\ processedChunks[Slot(a)] = Answer(a)
         /\ processedChunks[Slot(b)] = ChunkText(b)
    /\ \E w \in Chunk : wpc[w] \in {"call", "sleep", "send"}
    /\ processBar >= 2 /\ semaphore < maxConcurrentRequests
----------------------------------------------------------------------------
(* Deadlock freedom.                                                       *)

\* the dispatcher is blocked on the full admission gate
GateBlocked == Running /\ pc = "acquire" /\ ~ENABLED Acquire

\* no state of a run is stuck: a run that has not ended can take a step; no
\* more than N results are in the channel; a worker at its send can send, one
\* past its send can release its slot; and while the dispatcher is blocked on
\* the full gate a worker holding a slot can take a step
NeverStuck ==
    /\ Running => ENABLED Next
    /\ Len(results) + Cardinality({w \in Workers : slotWrites[w] > 0}) <= N
    /\ \A w \in Workers :
         /\ wpc[w] = "send" => ENABLED Send(w) /\ ~closed
         /\ wpc[w] = "bar" => ENABLED Bar(w)
         /\ wpc[w] = "release" => ENABLED Release(w)
    /\ GateBlocked =>
         \E w \in Holders :
           ENABLED (Call(w) \/ Wake(w) \/ Send(w) \/ Bar(w) \/ Release(w))

\* C18: the run never deadlocks although results are collected only after all
\* chunks are admitted: at most N results are ever in flight, so a send on
\* the results channel never blocks and every worker that has finished its
\* attempts goes on to release its slot; a dispatcher blocked on the full
\* admission gate is eventually unblocked.
C18_DeadlockFree == []NeverStuck /\ (GateBlocked ~> (pc = "go"))

\* the dispatcher is blocked on the full gate while results lie uncollected
\* in the channel and a worker is about to send another
C18_Witness ==
    /\ GateBlocked
    /\ Len(results) >= 1
    /\ \E w \in Workers : wpc[w] = "send"
----------------------------------------------------------------------------
(* Slots and retries.                                                      *)

\* the workers that are trying: in an attempt or waiting out a retry delay
Retrying == {w \in Workers : wpc[w] \in {"call", "sleep"}}

\* C19: a worker holds its slot from its admission until it has sent its
\* result, through every failed attempt and every retry delay: the slots
\* taken are those of the workers not yet past their release, a worker past
\* it has sent its result and one still trying has not; so while
\* maxConcurrentRequests workers are trying the dispatcher cannot admit a
\* chunk; and the chunks admitted so far are exactly those of index below i,
\* that is, chunks are admitted in ascending order of index.
C19_SlotHeldThroughRetries ==
    /\ semaphore = Cardinality(Holders) + Admitting
    /\ \A w \in Workers :
         /\ wpc[w] \in {"bar", "release", "wgdone", "done"} => w \in SentIndices
         /\ wpc[w] \in {"call", "sleep", "send"} => w \notin SentIndices
    /\ Cardinality(Retrying) = maxConcurrentRequests => ~ENABLED Acquire
    /\ {w \in Workers : wpc[w] # "none"} = 0 .. (i - 1)

\* the dispatcher waits to admit a chunk while maxConcurrentRequests workers
\* are all past a failed attempt, one of them in its retry delay
C19_Witness ==
    /\ pc = "acquire" /\ i < N
    /\ Cardinality(Retrying) = maxConcurrentRequests
    /\ \A w \in Retrying : attempt[w] >= 1
    /\ \E w \in Retrying : wpc[w] = "sleep"
====
